---- MODULE Spec2Model ----
(***************************************************************************)
(* Model of src/main.cpp: a keyboard-monitor thread (cKeyboard::Start)     *)
(* posting command lines into the one-slot mailbox of cCommander, and the  *)
(* io_service thread running cCommander::CheckForCommand,                  *)
(* cWorkSimulator::FinishWork and the completion handlers of               *)
(* cNonBlockingTCPClient.                                                  *)
(*                                                                         *)
(* A command line is a sequence of one-character strings.  Each            *)
(* lock_guard region of cWorkSimulator is two steps (acquire, then body    *)
(* and release) so that the holder of cWorkSimulator::myMutex is visible;  *)
(* the lock_guard regions of cCommander are single steps.                  *)
(***************************************************************************)
EXTENDS Integers, Sequences, FiniteSets, Bags, TLC

(* ---------------- bounds of the model ---------------- *)

\* C/R/W lines the operator may enter in one run
MaxPosts == 2

\* expiries of the work timer that get past the stop check in one run
MaxTicks == 2

(* ---------------- program constants ---------------- *)

MAX_PACKET_SIZE_BYTES == 1024

\* length of myConnectMessage and of myWriteMessage
FrameLen == 15

(* ---------------- command lines ---------------- *)

Digits == {"0", "1", "2", "3", "4", "5", "6", "7", "8", "9"}

DigitVal(c) ==
    CASE c = "0" -> 0 [] c = "1" -> 1 [] c = "2" -> 2 [] c = "3" -> 3
      [] c = "4" -> 4 [] c = "5" -> 5 [] c = "6" -> 6 [] c = "7" -> 7
      [] c = "8" -> 8 [] c = "9" -> 9

\* the lines the operator may type
Lines ==
    { <<>>,
      <<"z">>,
      <<"q">>,
      <<"Q">>,
      <<"x">>,
      <<"W">>,
      <<"C">>,
      <<"C", " ", "h", " ", "p">>,
      <<"R">>,
      <<"R", " ", "a">>,
      <<"R", " ", "5">>,
      <<"R", " ", "-", "1">>,
      <<"r", " ", "2", "0", "0", "0">> }

\* cmd[0] of a std::string: the terminating '\0' when the string is empty
FirstChar(s) == IF Len(s) = 0 THEN "NUL" ELSE s[1]

\* one getline( sst, a, ' ' ): the characters up to the next ' ' or the end
RECURSIVE UpToSpace(_)
UpToSpace(s) ==
    IF s = <<>> \/ Head(s) = " " THEN <<>>
    ELSE <<Head(s)>> \o UpToSpace(Tail(s))

\* while( getline( sst, a, ' ' ) ) vcmd.push_back(a);
\* getline fails, ending the loop, once the stream is at its end
RECURSIVE Tokenize(_)
Tokenize(s) ==
    IF s = <<>> THEN <<>>
    ELSE LET a == UpToSpace(s)
             rest == SubSeq(s, Len(a) + 2, Len(s))
         IN  <<a>> \o Tokenize(rest)

\* the digits atoi consumes: the longest prefix of decimal digits
RECURSIVE DigitPrefix(_)
DigitPrefix(s) ==
    IF s = <<>> \/ Head(s) \notin Digits THEN <<>>
    ELSE <<Head(s)>> \o DigitPrefix(Tail(s))

RECURSIVE DigitsValue(_)
DigitsValue(s) ==
    IF s = <<>> THEN 0
    ELSE 10 * DigitsValue(SubSeq(s, 1, Len(s) - 1)) + DigitVal(s[Len(s)])

\* atoi: optional sign, then digits; 0 when there is no digit
atoi(s) ==
    IF s # <<>> /\ Head(s) = "-" THEN 0 - DigitsValue(DigitPrefix(Tail(s)))
    ELSE IF s # <<>> /\ Head(s) = "+" THEN DigitsValue(DigitPrefix(Tail(s)))
    ELSE DigitsValue(DigitPrefix(s))

\* boost::asio::buffer( myRcvBuffer, byte_count ): the int byte_count
\* converts to std::size_t, so a negative count becomes a value of at least
\* 2^64 - 2^31, and the buffer is never longer than the array
BufferSize(byte_count) ==
    IF byte_count < 0 \/ byte_count > MAX_PACKET_SIZE_BYTES
    THEN MAX_PACKET_SIZE_BYTES
    ELSE byte_count

(* ---------------- state ---------------- *)

VARIABLES
    pcK,            \* keyboard thread: "getline", "call", "locked", "done"
    typed,          \* history: getline has returned a line of the operator
    kbCall,         \* the cWorkSimulator method the keyboard thread is calling
    pcR,            \* io_service thread: "main", "run", the handler step, "returned", "aborted"
    cmd,            \* CheckForCommand's local copy of the command
    myCommand,      \* cCommander::myCommand, the mailbox slot
    wsMutex,        \* holder of cWorkSimulator::myMutex: "none", "keyboard", "reactor"
    myfWaitOnUser,  \* cWorkSimulator::myfWaitOnUser
    myfStop,        \* cWorkSimulator::myfStop
    count,          \* the static count of FinishWork
    workTimer,      \* cWorkSimulator::myTimer has a wait pending
    cmdTimer,       \* cCommander::myTimer has a wait pending
    myConnection,   \* cNonBlockingTCPClient::myConnection
    mySocketTCP,    \* cNonBlockingTCPClient::mySocketTCP: Wild, Null or a socket number
    nSock,          \* sockets created and still alive are 1..nSock
    pending,        \* bag of asynchronous operations in flight
    report,         \* the status line the io_service thread printed last
    nPosted,        \* history: C/R/W lines posted by the keyboard thread
    lastPost,       \* history: the line posted last since CheckForCommand last read the slot
    sinceTake,      \* history: posts since CheckForCommand last read the slot (2 = two or more)
    ticks,          \* history: expiries of the work timer that got past the stop check
    skipped         \* history: the last of them found myfWaitOnUser set and counted no job

vars == <<pcK, typed, kbCall, pcR, cmd, myCommand, wsMutex, myfWaitOnUser, myfStop,
          count, workTimer, cmdTimer, myConnection, mySocketTCP, nSock,
          pending, report, nPosted, lastPost, sinceTake, ticks, skipped>>

kbVars  == <<pcK, kbCall, typed>>
wsVars  == <<wsMutex, myfWaitOnUser, myfStop, count, workTimer, ticks, skipped>>
tcpVars == <<myConnection, mySocketTCP, nSock, pending>>
boxVars == <<myCommand, lastPost, sinceTake, nPosted>>

\* an indeterminate pointer value, and the null pointer
Wild == 0 - 1
Null == 0

\* mySocketTCP points at a socket object that exists
SocketLive == mySocketTCP >= 1 /\ mySocketTCP <= nSock

\* the process still runs
Running == pcR \notin {"returned", "aborted"}

\* The constructors leave myConnection, mySocketTCP and myfWaitOnUser
\* without a value ("not_yet" stands for every value of myConnection that
\* is neither no nor yes); cCommander's constructor has polled the empty
\* slot once and the keyboard thread has been started.
Init ==
    /\ pcK = "getline"
    /\ typed = FALSE
    /\ kbCall = "none"
    /\ pcR = "main"
    /\ cmd = <<>>
    /\ myCommand = <<>>
    /\ wsMutex = "none"
    /\ myfWaitOnUser \in BOOLEAN
    /\ myfStop = FALSE
    /\ count = 0
    /\ workTimer = FALSE
    /\ cmdTimer = TRUE
    /\ myConnection \in {"no", "yes", "not_yet"}
    /\ mySocketTCP = Wild
    /\ nSock = 0
    /\ pending = EmptyBag
    /\ report = "none"
    /\ nPosted = 0
    /\ lastPost = <<>>
    /\ sinceTake = 0
    /\ ticks = 0
    /\ skipped = FALSE

(* ---------------- cCommander: the mailbox ---------------- *)

\* void cCommander::Command( const std::string& command ), one lock_guard region
CommandSet(command) == myCommand' = command

\* std::string cCommander::Command(), one lock_guard region: the slot is
\* returned and left as it is
CommandGet == myCommand

(* ---------------- cKeyboard::Start, the keyboard thread ---------------- *)

StopChars  == {"x", "X"}
PauseChars == {"q", "Q"}
PostChars  == {"c", "C", "r", "R", "w", "W"}

\* Start with a 'q' case that falls into the cases below it: the line is
\* posted and the pause is cleared again
Start_PauseFallsThrough(line) ==
    /\ pcK = "getline"
    /\ Running
    /\ typed' = TRUE
    /\ UNCHANGED <<pcR, cmd, wsVars, cmdTimer, tcpVars, report>>
    /\ IF FirstChar(line) \in StopChars
       THEN /\ CommandSet(line)
            /\ lastPost' = line
            /\ sinceTake' = IF sinceTake < 2 THEN sinceTake + 1 ELSE 2
            /\ UNCHANGED nPosted
            /\ kbCall' = "Stop"
            /\ pcK' = "call"
       ELSE IF FirstChar(line) \in PauseChars \cup PostChars
       THEN /\ nPosted < MaxPosts
            /\ CommandSet(line)
            /\ lastPost' = line
            /\ sinceTake' = IF sinceTake < 2 THEN sinceTake + 1 ELSE 2
            /\ nPosted' = nPosted + 1
            /\ kbCall' = "WaitOnUserUnSet"
            /\ pcK' = "call"
       ELSE UNCHANGED <<boxVars, pcK, kbCall>>

\* getline and the switch on cmd[0], up to the call into cWorkSimulator
Start(line) ==
    /\ pcK = "getline"
    /\ Running
    /\ typed' = TRUE
    /\ UNCHANGED <<pcR, cmd, wsVars, cmdTimer, tcpVars, report>>
    /\ IF FirstChar(line) \in StopChars
       THEN /\ CommandSet(line)
            /\ lastPost' = line
            /\ sinceTake' = IF sinceTake < 2 THEN sinceTake + 1 ELSE 2
            /\ UNCHANGED nPosted
            /\ kbCall' = "Stop"
            /\ pcK' = "call"
       ELSE IF FirstChar(line) \in PauseChars
       THEN /\ UNCHANGED boxVars
            /\ kbCall' = "WaitOnUserSet"
            /\ pcK' = "call"
       ELSE IF FirstChar(line) \in PostChars
       THEN /\ nPosted < MaxPosts
            /\ CommandSet(line)
            /\ lastPost' = line
            /\ sinceTake' = IF sinceTake < 2 THEN sinceTake + 1 ELSE 2
            /\ nPosted' = nPosted + 1
            /\ kbCall' = "WaitOnUserUnSet"
            /\ pcK' = "call"
       ELSE UNCHANGED <<boxVars, pcK, kbCall>>

\* the keyboard thread takes cWorkSimulator::myMutex
KeyboardLock ==
    /\ pcK = "call"
    /\ Running
    /\ wsMutex = "none"
    /\ wsMutex' = "keyboard"
    /\ pcK' = "locked"
    /\ UNCHANGED <<typed, kbCall, pcR, cmd, boxVars, myfWaitOnUser, myfStop, count,
                   workTimer, ticks, skipped, cmdTimer, tcpVars, report>>

WaitOnUserSet ==
    /\ pcK = "locked" /\ kbCall = "WaitOnUserSet"
    /\ Running
    /\ myfWaitOnUser' = TRUE
    /\ wsMutex' = "none"
    /\ pcK' = "getline"
    /\ kbCall' = "none"
    /\ UNCHANGED <<typed, pcR, cmd, boxVars, myfStop, count, workTimer, ticks,
                   skipped, cmdTimer, tcpVars, report>>

WaitOnUserUnSet ==
    /\ pcK = "locked" /\ kbCall = "WaitOnUserUnSet"
    /\ Running
    /\ myfWaitOnUser' = FALSE
    /\ wsMutex' = "none"
    /\ pcK' = "getline"
    /\ kbCall' = "none"
    /\ UNCHANGED <<typed, pcR, cmd, boxVars, myfStop, count, workTimer, ticks,
                   skipped, cmdTimer, tcpVars, report>>

\* cWorkSimulator::Stop, after which Start returns and the thread ends
Stop ==
    /\ pcK = "locked" /\ kbCall = "Stop"
    /\ Running
    /\ myfStop' = TRUE
    /\ wsMutex' = "none"
    /\ pcK' = "done"
    /\ kbCall' = "none"
    /\ UNCHANGED <<typed, pcR, cmd, boxVars, myfWaitOnUser, count, workTimer,
                   ticks, skipped, cmdTimer, tcpVars, report>>

(* ---------------- main and cWorkSimulator, the io_service thread ---------------- *)

\* main: theWorkSimulator.StartWork(), then io_service.run()
StartWork ==
    /\ pcR = "main"
    /\ workTimer' = TRUE
    /\ pcR' = "run"
    /\ UNCHANGED <<kbVars, cmd, boxVars, wsMutex, myfWaitOnUser, myfStop,
                   count, ticks, skipped, cmdTimer, tcpVars, report>>

\* the wait of cWorkSimulator::myTimer expires and FinishWork is entered;
\* after MaxTicks such expiries the timer expires again only to see the stop
FinishWork_Enter ==
    /\ pcR = "run"
    /\ workTimer
    /\ ticks < MaxTicks \/ myfStop
    /\ workTimer' = FALSE
    /\ pcR' = "StopGet"
    /\ UNCHANGED <<kbVars, cmd, boxVars, wsMutex, myfWaitOnUser, myfStop,
                   count, ticks, skipped, cmdTimer, tcpVars, report>>

\* StopGet takes cWorkSimulator::myMutex
StopGet_Lock ==
    /\ pcR = "StopGet"
    /\ wsMutex = "none"
    /\ wsMutex' = "reactor"
    /\ pcR' = "StopGet_locked"
    /\ UNCHANGED <<kbVars, cmd, boxVars, myfWaitOnUser, myfStop, count,
                   workTimer, ticks, skipped, cmdTimer, tcpVars, report>>

\* StopGet that consumes the flag it reads: a stop is seen once and forgotten
StopGet_ClearsFlag ==
    /\ pcR = "StopGet_locked"
    /\ wsMutex' = "none"
    /\ myfStop' = FALSE
    /\ IF myfStop
       THEN pcR' = "run" /\ report' = "Stopping"
       ELSE pcR' = "work" /\ UNCHANGED report
    /\ UNCHANGED <<kbVars, cmd, boxVars, myfWaitOnUser, count,
                   workTimer, ticks, skipped, cmdTimer, tcpVars>>

\* StopGet returns myfStop; if( StopGet() ) { "Stopping"; return; }
StopGet ==
    /\ pcR = "StopGet_locked"
    /\ wsMutex' = "none"
    /\ IF myfStop
       THEN pcR' = "run" /\ report' = "Stopping"
       ELSE pcR' = "work" /\ UNCHANGED report
    /\ UNCHANGED <<kbVars, cmd, boxVars, myfWaitOnUser, myfStop, count,
                   workTimer, ticks, skipped, cmdTimer, tcpVars>>

\* FinishWork without its test of myfWaitOnUser: every expiry counts a job
FinishWork_Work_AlwaysCounts ==
    /\ pcR = "work"
    /\ count' = count + 1
    /\ report' = "Completed Job"
    /\ workTimer' = TRUE
    /\ pcR' = "run"
    /\ ticks' = ticks + 1
    /\ skipped' = myfWaitOnUser
    /\ UNCHANGED <<kbVars, cmd, boxVars, wsMutex, myfWaitOnUser, myfStop,
                   cmdTimer, tcpVars>>

\* the rest of FinishWork: myfWaitOnUser is read without the mutex, the job
\* is counted unless it is set, and StartWork starts the timer again
FinishWork_Work ==
    /\ pcR = "work"
    /\ IF ~ myfWaitOnUser
       THEN count' = count + 1 /\ report' = "Completed Job"
       ELSE UNCHANGED <<count, report>>
    /\ workTimer' = TRUE
    /\ pcR' = "run"
    /\ ticks' = ticks + 1
    /\ skipped' = myfWaitOnUser
    /\ UNCHANGED <<kbVars, cmd, boxVars, wsMutex, myfWaitOnUser, myfStop,
                   cmdTimer, tcpVars>>

(* ---------------- cNonBlockingTCPClient ---------------- *)

\* What a call into the client leaves behind: the members, the operations
\* in flight, the line printed last, and whether the process was killed.
Client(conn, sock, n, ops, line, dead) ==
    [myConnection |-> conn, mySocketTCP |-> sock, nSock |-> n,
     pending |-> ops, report |-> line, aborted |-> dead]

Unchanged(line) ==
    Client(myConnection, mySocketTCP, nSock, pending, line, FALSE)

\* an asynchronous operation in flight
Op(kind, sock, len) == [kind |-> kind, sock |-> sock, len |-> len]

\* what the resolve and the connect of one Connect call may do
ConnectOutcomes == {"ok", "resolve_error", "exception", "connect_error", "not_open"}

\* what the build may do with *mySocketTCP, or with vcmd[1], when there is
\* no such object: kill the process, or carry on
UBOutcomes == {"abort", "survive"}

\* void cNonBlockingTCPClient::Connect( ip, port )
Connect(outcome) ==
    IF outcome \in {"resolve_error", "exception"}
    THEN \* thrown before the socket is made; catch( ... ) only prints
         Unchanged("Client Connection failed 2")
    ELSE IF outcome \in {"connect_error", "not_open"}
    THEN \* the new socket is deleted again
         Client("no", Null, nSock, pending, "Client Connection failed", FALSE)
    ELSE Client("yes", nSock + 1, nSock + 1,
                pending (+) SetToBag({Op("hello", nSock + 1, FrameLen)}),
                "Client Connected OK", FALSE)

\* void cNonBlockingTCPClient::Read( int byte_count )
Read(byte_count, ub) ==
    IF myConnection # "yes"
    THEN Unchanged("Read Request but no connection")
    ELSE IF byte_count > MAX_PACKET_SIZE_BYTES
    THEN Unchanged("Too many bytes requested")
    ELSE \* byte_count < 1 prints "Error in read command" and goes on
         IF SocketLive
         THEN Client(myConnection, mySocketTCP, nSock,
                     pending (+) SetToBag({Op("read", mySocketTCP, BufferSize(byte_count))}),
                     "waiting for server to reply", FALSE)
         ELSE IF ub = "abort"
         THEN Client(myConnection, mySocketTCP, nSock, pending, report, TRUE)
         ELSE Unchanged("waiting for server to reply")

\* void cNonBlockingTCPClient::Write()
Write(ub) ==
    IF myConnection # "yes"
    THEN Unchanged("Write Request but no connection")
    ELSE IF SocketLive
    THEN Client(myConnection, mySocketTCP, nSock,
                pending (+) SetToBag({Op("write", mySocketTCP, FrameLen)}),
                report, FALSE)
    ELSE IF ub = "abort"
    THEN Client(myConnection, mySocketTCP, nSock, pending, report, TRUE)
    ELSE Unchanged(report)

\* handle_read( error, bytes_received )
handle_read(error) ==
    IF error
    THEN Client("no", mySocketTCP, nSock, pending, "Connection closed", FALSE)
    ELSE Unchanged("bytes read")

\* handle_connect_write that marks the client connected again when the
\* connection message went out whole
handle_connect_write_Reconnects(error, bytes_sent) ==
    IF error \/ bytes_sent # FrameLen
    THEN Client("no", mySocketTCP, nSock, pending,
                "Error sending connection message to server", FALSE)
    ELSE Client("yes", mySocketTCP, nSock, pending,
                "Connection message sent to server", FALSE)

\* handle_connect_write( error, bytes_sent )
handle_connect_write(error, bytes_sent) ==
    IF error \/ bytes_sent # FrameLen
    THEN Client("no", mySocketTCP, nSock, pending,
                "Error sending connection message to server", FALSE)
    ELSE Unchanged("Connection message sent to server")

\* handle_write that tests the error code alone and takes a short write for
\* a full one
handle_write_ErrorOnly(error, bytes_sent) ==
    IF error
    THEN Client("no", mySocketTCP, nSock, pending,
                "Error sending write message to server", FALSE)
    ELSE Unchanged("Write message sent to server")

\* handle_write( error, bytes_sent )
handle_write(error, bytes_sent) ==
    IF error \/ bytes_sent # FrameLen
    THEN Client("no", mySocketTCP, nSock, pending,
                "Error sending write message to server", FALSE)
    ELSE Unchanged("Write message sent to server")

\* the members of the client after a call that left c behind
Apply(c) ==
    /\ myConnection' = c.myConnection
    /\ mySocketTCP' = c.mySocketTCP
    /\ nSock' = c.nSock
    /\ pending' = c.pending
    /\ report' = c.report

\* an operation in flight completes and the io_service runs its handler
Complete(op, error, bytes_sent) ==
    /\ pcR = "run"
    /\ BagIn(op, pending)
    /\ LET c == IF op.kind = "read" THEN handle_read(error)
                ELSE IF op.kind = "hello" THEN handle_connect_write(error, bytes_sent)
                ELSE handle_write(error, bytes_sent)
       IN  /\ myConnection' = c.myConnection
           /\ report' = c.report
           /\ pending' = pending (-) SetToBag({op})
    /\ UNCHANGED <<kbVars, pcR, cmd, boxVars, wsVars, cmdTimer, mySocketTCP, nSock>>

(* ---------------- cCommander::CheckForCommand ---------------- *)

\* the wait of cCommander::myTimer expires: string cmd = Command(); with an
\* empty cmd the next check is scheduled at once
CheckForCommand_Take ==
    /\ pcR = "run"
    /\ cmdTimer
    /\ lastPost' = <<>>
    /\ sinceTake' = 0
    /\ IF CommandGet = <<>>
       THEN UNCHANGED <<pcR, cmd, cmdTimer, report>>
       ELSE /\ cmd' = CommandGet
            /\ cmdTimer' = FALSE
            /\ pcR' = "cfc"
            /\ report' = "CheckForCommand"
    /\ UNCHANGED <<kbVars, myCommand, nPosted, wsVars, tcpVars>>

\* the switch on vcmd[0][0]: what the call into the client leaves behind
Route(vcmd, outcome, ub) ==
    LET c == FirstChar(vcmd[1])
    IN  IF c \in {"r", "R"}
        THEN IF Len(vcmd) < 2
             THEN Unchanged("Read command missing byte count")
             ELSE Read(atoi(vcmd[2]), ub)
        ELSE IF c \in {"c", "C"}
        THEN \* vcmd[1] and vcmd[2] are read whatever vcmd.size() is
             IF Len(vcmd) < 3 /\ ub = "abort"
             THEN Client(myConnection, mySocketTCP, nSock, pending, report, TRUE)
             ELSE Connect(outcome)
        ELSE IF c \in {"w", "W"}
        THEN Write(ub)
        ELSE Unchanged("Unrecognized command")

\* CheckForCommand without its Command("") after the switch: the handled
\* line stays in the slot for the next check
CheckForCommand_Dispatch_KeepsCommand(outcome, ub) ==
    /\ pcR = "cfc"
    /\ LET vcmd == Tokenize(cmd)
       IN  IF FirstChar(vcmd[1]) \in StopChars
           THEN /\ pcR' = "run"
                /\ cmd' = <<>>
                /\ UNCHANGED <<myCommand, cmdTimer, tcpVars, report>>
           ELSE LET c == Route(vcmd, outcome, ub)
                IN  /\ Apply(c)
                    /\ UNCHANGED myCommand
                    /\ IF c.aborted
                       THEN /\ pcR' = "aborted"
                            /\ UNCHANGED <<cmd, cmdTimer>>
                       ELSE /\ cmdTimer' = TRUE
                            /\ cmd' = <<>>
                            /\ pcR' = "run"
    /\ UNCHANGED <<kbVars, nPosted, lastPost, sinceTake, wsVars>>

\* the rest of CheckForCommand with a command in cmd: tokenize, switch,
\* then Command("") and the next check; 'x' returns before both
CheckForCommand_Dispatch(outcome, ub) ==
    /\ pcR = "cfc"
    /\ LET vcmd == Tokenize(cmd)
       IN  IF FirstChar(vcmd[1]) \in StopChars
           THEN /\ pcR' = "run"
                /\ cmd' = <<>>
                /\ UNCHANGED <<myCommand, cmdTimer, tcpVars, report>>
           ELSE LET c == Route(vcmd, outcome, ub)
                IN  /\ Apply(c)
                    /\ IF c.aborted
                       THEN /\ pcR' = "aborted"
                            /\ UNCHANGED <<cmd, myCommand, cmdTimer>>
                       ELSE /\ CommandSet(<<>>)
                            /\ cmdTimer' = TRUE
                            /\ cmd' = <<>>
                            /\ pcR' = "run"
    /\ UNCHANGED <<kbVars, nPosted, lastPost, sinceTake, wsVars>>

\* io_service.run() returns when no handler is pending; main returns 0
RunReturns ==
    /\ pcR = "run"
    /\ ~ workTimer
    /\ ~ cmdTimer
    /\ pending = EmptyBag
    /\ pcR' = "returned"
    /\ UNCHANGED <<kbVars, cmd, boxVars, wsVars, cmdTimer, tcpVars, report>>

(* ---------------- the program ---------------- *)

Keyboard ==
    \/ \E line \in Lines : Start(line)
    \/ KeyboardLock
    \/ WaitOnUserSet
    \/ WaitOnUserUnSet
    \/ Stop

Reactor ==
    \/ StartWork
    \/ FinishWork_Enter
    \/ StopGet_Lock
    \/ StopGet
    \/ FinishWork_Work
    \/ CheckForCommand_Take
    \/ \E outcome \in ConnectOutcomes, ub \in UBOutcomes :
           CheckForCommand_Dispatch(outcome, ub)
    \/ \E op \in BagToSet(pending), error \in BOOLEAN,
          bytes_sent \in {FrameLen, FrameLen - 1} : Complete(op, error, bytes_sent)
    \/ RunReturns

Next == Keyboard \/ Reactor

Spec == Init /\ [][Next]_vars

(* ---------------- claims ---------------- *)

\* the step of CheckForCommand that runs Command("") and schedules the next check
ClearStep == pcR = "cfc" /\ pcR' = "run" /\ cmdTimer'

\* C1: the dispatcher reads and clears the slot as one atomic step: when it
\* clears the slot, no Post has taken effect since it read the slot, so the
\* command it erases is the command that was returned to it.
C1_AtomicTakeAndClear == [][ClearStep => sinceTake = 0]_vars

\* the operator has entered an X line
XEntered == kbCall = "Stop" \/ pcK = "done"

\* the dispatcher no longer polls: its timer has no wait pending and
\* CheckForCommand is not running
DispatcherStopped == ~ cmdTimer /\ pcR # "cfc"

\* C2: shutdown liveness, as the state it needs: the keyboard thread posts
\* nothing after an X line and the dispatcher stops polling only on X, so
\* for io_service.run() to return once an X line is entered, the X command
\* must at every moment be in the slot, be in the dispatcher's hands, or
\* have stopped the dispatcher already.
C2_ShutdownLiveness ==
    (XEntered /\ Running) =>
        \/ FirstChar(myCommand) \in StopChars
        \/ pcR = "cfc" /\ FirstChar(cmd) \in StopChars
        \/ DispatcherStopped

\* the tokens of the command CheckForCommand is handling
Vcmd == Tokenize(cmd)

\* the step of CheckForCommand that handles the command in cmd
DispatchStep == pcR = "cfc" /\ pcR' # "cfc"

\* the client is connected through a socket that exists
Connected == myConnection = "yes" /\ SocketLive

\* the step in which CheckForCommand calls myTCP.Read( atoi( vcmd[1] ) )
ReadCalled ==
    DispatchStep /\ FirstChar(Vcmd[1]) \in {"r", "R"} /\ Len(Vcmd) >= 2

\* C3: Read(b) on a connected client issues exactly one receive request for
\* b bytes when 1 <= b <= MAX_PACKET_SIZE_BYTES; for every other b, and on a
\* client that is not connected, it issues no I/O at all.
C3_ReadBounds ==
    [][ReadCalled =>
          LET b == atoi(Vcmd[2])
          IN  IF Connected /\ 1 <= b /\ b <= MAX_PACKET_SIZE_BYTES
              THEN pending' = pending (+) SetToBag({Op("read", mySocketTCP, b)})
              ELSE IF myConnection # "yes" \/ b < 1 \/ b > MAX_PACKET_SIZE_BYTES
              THEN pending' = pending
              ELSE TRUE]_vars

\* the step of FinishWork that comes after the stop check
WorkStep == pcR = "work" /\ pcR' # "work"

\* C4: once Stop has set myfStop, FinishWork never counts another job and
\* never starts the work timer again.
C4_NoWorkAfterStop ==
    [][myfStop => (count' = count /\ ~ (WorkStep /\ workTimer'))]_vars

\* C5: an expiry of the work timer that is not stopped and finds
\* myfWaitOnUser set leaves count unchanged and starts the timer again; one
\* that finds it cleared adds exactly 1 to count and starts the timer again;
\* count changes in no other step, so skipped expiries are never made up.
C5_PauseSkipsJobs ==
    [][/\ (pcR = "StopGet_locked" /\ pcR' # pcR /\ ~ myfStop) => pcR' = "work"
       /\ WorkStep =>
            /\ workTimer'
            /\ count' = IF myfWaitOnUser THEN count ELSE count + 1
       /\ count' # count => WorkStep]_vars

\* C5 witness: two expiries got past the stop check, the first found
\* myfWaitOnUser set and counted nothing, the second found it cleared and
\* counted job 1.
C5_Witness ==
    ticks = 2 /\ count = 1 /\ ~ skipped /\ pcR = "run" /\ workTimer

\* the step in which CheckForCommand reads the slot after a post
TakeStep == pcR = "run" /\ sinceTake > 0 /\ sinceTake' = 0

\* C6: last write wins: when two or more lines were posted since the
\* dispatcher last read the slot, its next read returns the line posted
\* last, and that line is the command it handles.
C6_LastWriteWins ==
    [][(TakeStep /\ sinceTake = 2) => (cmd' = lastPost /\ pcR' = "cfc")]_vars

\* the step in which a Connect call, on a client that connected before,
\* reports a failure
ConnectFailed ==
    /\ DispatchStep
    /\ FirstChar(Vcmd[1]) \in {"c", "C"}
    /\ Len(Vcmd) >= 3
    /\ SocketLive
    /\ report' \in {"Client Connection failed", "Client Connection failed 2"}

\* C7: every failed Connect leaves myConnection at "no", whatever it was
\* before the call, and returns to CheckForCommand.
C7_FailedConnectDisconnects ==
    [][ConnectFailed => (myConnection' = "no" /\ pcR' = "run")]_vars

\* an R line whose byte-count token is missing or holds no number, or a C
\* line with fewer than two further tokens
Malformed(v) ==
    \/ /\ FirstChar(v[1]) \in {"r", "R"}
       /\ \/ Len(v) < 2
          \/ DigitPrefix(IF v[2] # <<>> /\ Head(v[2]) \in {"-", "+"}
                         THEN Tail(v[2]) ELSE v[2]) = <<>>
    \/ /\ FirstChar(v[1]) \in {"c", "C"}
       /\ Len(v) < 3

\* C8: handling a malformed command changes nothing in the client, issues
\* no I/O, reads no token that is missing (so the process lives on), and
\* schedules the next check.
C8_MalformedDiscarded ==
    [][(DispatchStep /\ Malformed(Vcmd)) =>
          (UNCHANGED tcpVars /\ pcR' = "run" /\ cmdTimer')]_vars

\* C9: no data race on the flags: there is no state in which the keyboard
\* thread is inside WaitOnUserSet or WaitOnUserUnSet, about to write
\* myfWaitOnUser, while FinishWork is about to read myfWaitOnUser.
C9_NoDataRace ==
    ~ (/\ pcK = "locked"
       /\ kbCall \in {"WaitOnUserSet", "WaitOnUserUnSet"}
       /\ pcR = "work")

\* the step in which CheckForCommand calls myTCP.Write()
WriteCalled == DispatchStep /\ FirstChar(Vcmd[1]) \in {"w", "W"}

\* C10: Write on a client whose myConnection is not "yes" issues no send
\* and reports "Write Request but no connection"; Write on a client whose
\* myConnection is "yes" issues exactly one send of the 15-byte frame.
C10_WritePrecondition ==
    [][WriteCalled =>
          IF myConnection # "yes"
          THEN /\ pending' = pending
               /\ report' = "Write Request but no connection"
          ELSE pending' = pending (+) SetToBag({Op("write", mySocketTCP, FrameLen)})]_vars

\* the operations a completion handler may be run for, and what it may be told
CompletionInputs ==
    [op : BagToSet(pending), error : BOOLEAN, bytes_sent : {FrameLen, FrameLen - 1}]

\* C11: a completion that reports an error, and a completion of a send (the
\* hello frame or the probe frame) that reports fewer than FrameLen bytes,
\* sets myConnection to "no"; every other completion leaves myConnection as
\* it is.
C11_CompletionErrorsDisconnect ==
    [][\A i \in CompletionInputs :
          Complete(i.op, i.error, i.bytes_sent) =>
              IF i.error \/ (i.op.kind # "read" /\ i.bytes_sent # FrameLen)
              THEN myConnection' = "no"
              ELSE myConnection' = myConnection]_vars

\* C11 witness: on a client that had connected, the completion of a probe
\* frame reported a failure and myConnection is "no".
C11_Witness ==
    /\ report = "Error sending write message to server"
    /\ myConnection = "no"
    /\ SocketLive

\* C12: a poll that handles any command but X schedules the next poll and
\* returns to the event loop; a poll that handles X schedules none and none
\* is scheduled ever after; the poll timer is disarmed only by a poll that
\* found a command.
C12_PollReschedules ==
    [][/\ DispatchStep =>
            IF FirstChar(Vcmd[1]) \in StopChars
            THEN ~ cmdTimer' /\ pcR' = "run"
            ELSE cmdTimer' /\ pcR' = "run"
       /\ DispatcherStopped => ~ cmdTimer'
       /\ (cmdTimer /\ ~ cmdTimer') => pcR' = "cfc"]_vars

\* a Read or a Write that the claim has rejected for its precondition: the
\* client is not connected, or the byte count of a Read is out of bounds
Rejected ==
    \/ /\ ReadCalled
       /\ \/ myConnection # "yes"
          \/ atoi(Vcmd[2]) < 1
          \/ atoi(Vcmd[2]) > MAX_PACKET_SIZE_BYTES
    \/ /\ WriteCalled
       /\ myConnection # "yes"

\* C13: a Read or Write rejected for its precondition changes no state: the
\* client, the operations in flight and count are as before, and the poll
\* goes on as after any command.  (Stated for a client whose socket exists
\* whenever myConnection is "yes".)
C13_RejectionChangesNothing ==
    [][(Rejected /\ (myConnection = "yes" => SocketLive)) =>
          /\ UNCHANGED <<myConnection, mySocketTCP, nSock, pending, count>>
          /\ cmdTimer'
          /\ pcR' = "run"]_vars

\* C14: the keyboard thread classifies a line by its first character.  A
\* q/Q line leaves the slot as it is and calls WaitOnUserSet, which sets
\* myfWaitOnUser; a c/C/r/R/w/W line is put in the slot as typed and then
\* WaitOnUserUnSet clears myfWaitOnUser; an x/X line is put in the slot as
\* typed, then Stop sets myfStop and the thread ends, posting nothing more;
\* any other line, the empty line too, changes neither the slot nor a flag.
C14_LineClassification ==
    [][/\ \A line \in Lines :
            Start(line) =>
                IF FirstChar(line) \in {"q", "Q"}
                THEN /\ UNCHANGED <<myCommand, myfWaitOnUser, myfStop>>
                     /\ kbCall' = "WaitOnUserSet" /\ pcK' = "call"
                ELSE IF FirstChar(line) \in {"c", "C", "r", "R", "w", "W"}
                THEN /\ myCommand' = line
                     /\ UNCHANGED <<myfWaitOnUser, myfStop>>
                     /\ kbCall' = "WaitOnUserUnSet" /\ pcK' = "call"
                ELSE IF FirstChar(line) \in {"x", "X"}
                THEN /\ myCommand' = line
                     /\ UNCHANGED <<myfWaitOnUser, myfStop>>
                     /\ kbCall' = "Stop" /\ pcK' = "call"
                ELSE UNCHANGED <<myCommand, myfWaitOnUser, myfStop, pcK, kbCall>>
       /\ (pcK = "call" /\ pcK' # "call") =>
            /\ pcK' = "locked"
            /\ UNCHANGED <<myCommand, myfWaitOnUser, myfStop, kbCall>>
       /\ (pcK = "locked" /\ pcK' # "locked") =>
            /\ UNCHANGED myCommand
            /\ IF kbCall = "WaitOnUserSet"
               THEN myfWaitOnUser' /\ UNCHANGED myfStop /\ pcK' = "getline"
               ELSE IF kbCall = "WaitOnUserUnSet"
               THEN ~ myfWaitOnUser' /\ UNCHANGED myfStop /\ pcK' = "getline"
               ELSE myfStop' /\ UNCHANGED myfWaitOnUser /\ pcK' = "done"
       /\ pcK = "done" =>
            /\ pcK' = "done"
            /\ sinceTake' \in {sinceTake, 0}
            /\ myCommand' \in {myCommand, <<>>}]_vars

\* C14 witness: an R line was posted and cleared the pause, and later an x
\* line was posted as typed, Stop was signalled and the thread has ended.
C14_Witness ==
    /\ pcK = "done"
    /\ myfStop
    /\ myCommand = <<"x">>
    /\ nPosted >= 1
    /\ ~ myfWaitOnUser

KeyboardStep == pcK' # pcK \/ kbCall' # kbCall \/ typed' # typed

\* C15: myConnection becomes yes only in the dispatch of a C command whose
\* Connect succeeds, never in a completion handler and never in a failed
\* Connect; every change of the client's members is made by a step of the
\* io_service thread, and no step of the keyboard thread touches them.
C15_ConnectionStateMachine ==
    [][/\ (myConnection # "yes" /\ myConnection' = "yes") =>
            /\ DispatchStep
            /\ FirstChar(Vcmd[1]) \in {"c", "C"}
            /\ report' = "Client Connected OK"
            /\ mySocketTCP' = nSock'
            /\ nSock' = nSock + 1
       /\ (DispatchStep /\ report' \in {"Client Connection failed",
                                         "Client Connection failed 2"}) =>
            myConnection' # "yes" \/ myConnection = "yes"
       /\ (myConnection' # myConnection \/ mySocketTCP' # mySocketTCP
             \/ pending' # pending) =>
            /\ pcR \in {"run", "cfc"}
            /\ ~ KeyboardStep
       /\ KeyboardStep => UNCHANGED tcpVars]_vars

\* C15 witness: the second dispatched Connect has just succeeded and the
\* client holds the socket it made.
C15_Witness ==
    /\ myConnection = "yes"
    /\ SocketLive
    /\ nSock = 2
    /\ mySocketTCP = 2
    /\ report = "Client Connected OK"

\* C16: myfStop is false at the start; it is set only by the Stop call the
\* keyboard thread makes for an x/X line, and from the state in which it is
\* true no step of either thread, a pause set or cleared included, makes it
\* false again.
C16_StopIsMonotone ==
    /\ ~ myfStop
    /\ [][/\ myfStop => myfStop'
          /\ (~ myfStop /\ myfStop') => (pcK = "locked" /\ kbCall = "Stop")]_vars

\* C16 witness: Stop was called, FinishWork has since read the flag through
\* StopGet and stopped ticking, and the flag is still set when run() returns.
C16_Witness ==
    /\ myfStop
    /\ report = "Stopping"
    /\ ~ workTimer
    /\ ticks >= 1
    /\ pcR = "returned"

StaleCompletion(i) ==
    /\ Complete(i.op, i.error, i.bytes_sent)
    /\ myConnection = "yes"
    /\ SocketLive
    /\ i.op.sock # mySocketTCP

\* C17: once a second successful Connect has replaced the socket, the
\* completion of an operation issued on the earlier socket leaves the
\* current connection marked connected, whatever error or byte count the
\* completion carries.
C17_StaleCompletionIgnored ==
    [][\A i \in CompletionInputs :
          StaleCompletion(i) => myConnection' = "yes"]_vars

\* C18: before the operator has typed anything and before main has started
\* the work simulator, myConnection is no and myfWaitOnUser is false, as set
\* by the constructors.
C18_DefinedInitialValues ==
    (~ typed /\ pcR = "main") => (myConnection = "no" /\ ~ myfWaitOnUser)

\* C19: whenever myConnection is yes, mySocketTCP points at a socket the
\* client has made and not deleted.
C19_ConnectedHasLiveSocket ==
    myConnection = "yes" => SocketLive

\* the step in which a check finds a line in the slot and starts handling it
HandleStep == pcR = "run" /\ pcR' = "cfc"

\* C20: every line a check starts to handle was posted after the previous
\* check read the slot, and it is the line posted last; a handled line is
\* gone from the slot when the next check is scheduled, so no later check
\* handles it again; and the sockets made by Connect and the operations in
\* flight never outnumber the C/R/W lines posted.
C20_DispatchedAtMostOnce ==
    [][/\ HandleStep => (sinceTake > 0 /\ cmd' = lastPost)
       /\ (DispatchStep /\ cmdTimer') => myCommand' = <<>>
       /\ nSock' <= nPosted'
       /\ BagCardinality(pending') <= nPosted']_vars

\* C20 witness: two lines were posted, each was handled once (two sockets,
\* two connection messages in flight), and the dispatcher polls on with the
\* slot empty.
C20_Witness ==
    /\ nPosted = 2
    /\ nSock = 2
    /\ BagCardinality(pending) = 2
    /\ myCommand = <<>>
    /\ cmdTimer
    /\ pcR = "run"

====
